---- MODULE Spec2Model ----
(***************************************************************************)
(* Window / graphics-context lifecycle and Renderer of model-loading-gl.   *)
(*                                                                         *)
(* src/src/window.rs  : GfWindow (event loop owner, resumed/window_event)  *)
(*                      and the 2-D Renderer (DrawArrays, 3 vertices).     *)
(* src/src/renderer.rs: the 3-D Renderer (DrawElements, 12 indices).       *)
(*                                                                         *)
(* The graphics driver is modelled as one object table per context; every  *)
(* GL call is appended to `calls` together with the context that was       *)
(* current on the thread when it was issued.                               *)
(***************************************************************************)
EXTENDS Integers, Sequences, FiniteSets, TLC

VARIABLES
    variant,      \* "2D" (window.rs Renderer) or "3D" (renderer.rs Renderer)
    phase,        \* position of the process, see Phases
    renderer,     \* GfWindow.renderer : Option<Renderer>
    surface,      \* GfWindow.surface  : Option<Surface<WindowSurface>>
    context,      \* GfWindow.context  : Option<PossiblyCurrentContext>
    exit_state,   \* GfWindow.exit_state : anyhow::Result<()>
    result,       \* what run() returned ("none" while it has not returned)
    window_size,  \* client-area size of the native window
    gl,           \* driver: context id -> object table
    current,      \* context current on the thread, 0 when none
    nctx,         \* number of contexts the display has created so far
    calls,        \* GL / platform calls issued by the last callback
    last_event,   \* the last callback dispatched by the event loop
    last_drop,    \* ghost: the Renderer drop of the last callback, if any
    created,      \* ghost: number of Renderers constructed
    dropped,      \* ghost: number of Renderers dropped
    nresumed,     \* number of resumed signals delivered so far
    configs,      \* the candidate configurations the display offered
    config        \* GfWindow.config : the configuration config_picker chose

vars == <<variant, phase, renderer, surface, context, exit_state, result,
          window_size, gl, current, nctx, calls, last_event, last_drop,
          created, dropped, nresumed, configs, config>>

cfgvars == <<configs, config>>

----------------------------------------------------------------------------
(* Bounds of the model *)

\* buffer names the driver hands out are drawn from 1..MaxName
MaxName == 2
\* how many times the platform delivers the resumed signal in one run
MaxResumed == 2
\* window sizes reported by the platform are drawn from 0..MaxDim
MaxDim == 2
\* the display offers at most MaxConfigs candidate configurations, each with
\* a multisample count in 0..MaxSamples
MaxConfigs == 3
MaxSamples == 3

Names == 1..MaxName
Ctxs == 1..MaxResumed
Dims == 0..MaxDim

----------------------------------------------------------------------------
(* Program constants *)

\* renderer.rs:122  viewport_size: (800, 600)
DefaultViewportWidth == 800
DefaultViewportHeight == 600
\* renderer.rs:167 / renderer.rs:245  12 indices
IndexCount == 12
\* window.rs:249  DrawArrays(gl::TRIANGLES, 0, 3)
VertexCount == 3
\* renderer.rs:80  assert_ne!(ibo, 1)
IboAssertValue == 1

\* draw(): draw_with_clear_color(0.1, 0.1, 0.1, 0.9), in tenths
DefaultClearColor == <<1, 1, 1, 9>>

Variants == {"2D", "3D"}

Phases == {"new", "created", "running", "exiting", "returned", "panicked"}

None == [some |-> FALSE]
IsSome(x) == x.some

NoDrop == [n |-> 0]

----------------------------------------------------------------------------
(* The graphics driver: one object table per context *)

DeadCtx ==
    [alive |-> FALSE, programs |-> {}, shaders |-> {}, buffers |-> {},
     vaos |-> {}, bound_program |-> 0, viewport |-> <<0, 0>>]

\* a context just created by the display; the viewport takes the size of the
\* surface it is first made current against
FreshCtx(size) ==
    [alive |-> TRUE, programs |-> {}, shaders |-> {}, buffers |-> {},
     vaos |-> {}, bound_program |-> 0, viewport |-> size]

Call(op, args) == [op |-> op, args |-> args]

\* buffer names not in use in table t
FreeBufferNames(t) == Names \ t.buffers

\* The effect of one GL call on the object table of the context it runs in.
\* Creation calls carry the name the driver returned (0: nothing created).
GlEffect(t, c) ==
    CASE c.op = "CreateShader" ->
           IF c.args[1] = 0 THEN t
           ELSE [t EXCEPT !.shaders = @ \cup {c.args[1]}]
      [] c.op = "CreateProgram" ->
           IF c.args[1] = 0 THEN t
           ELSE [t EXCEPT !.programs = @ \cup {c.args[1]}]
      [] c.op = "DeleteShader" -> [t EXCEPT !.shaders = @ \ {c.args[1]}]
      [] c.op = "DeleteProgram" -> [t EXCEPT !.programs = @ \ {c.args[1]}]
      [] c.op \in {"GenVertexArrays", "CreateVertexArrays"} ->
           IF c.args[1] = 0 THEN t
           ELSE [t EXCEPT !.vaos = @ \cup {c.args[1]}]
      [] c.op \in {"GenBuffers", "CreateBuffers"} ->
           IF c.args[1] = 0 THEN t
           ELSE [t EXCEPT !.buffers = @ \cup {c.args[1]}]
      [] c.op = "DeleteBuffers" -> [t EXCEPT !.buffers = @ \ {c.args[1]}]
      [] c.op = "DeleteVertexArrays" -> [t EXCEPT !.vaos = @ \ {c.args[1]}]
      [] c.op = "UseProgram" ->
           IF c.args[1] \in t.programs
           THEN [t EXCEPT !.bound_program = c.args[1]]
           ELSE t
      [] c.op = "Viewport" -> [t EXCEPT !.viewport = <<c.args[3], c.args[4]>>]
      [] OTHER -> t

\* A machine state threads the driver tables and the call log through a
\* handler: m.cur is the context current on the thread.
Machine(cur, tables, log) == [cur |-> cur, gl |-> tables, log |-> log]

\* the calls that change an object table
EffectOps ==
    {"CreateShader", "CreateProgram", "DeleteShader", "DeleteProgram",
     "GenVertexArrays", "CreateVertexArrays", "GenBuffers", "CreateBuffers",
     "DeleteBuffers", "DeleteVertexArrays", "UseProgram", "Viewport"}

HasEffect(c) == c.op \in EffectOps

RECURSIVE ApplyAll(_, _)
ApplyAll(t, cs) ==
    IF cs = <<>> THEN t ELSE ApplyAll(GlEffect(t, Head(cs)), Tail(cs))

\* glUniform* writes to the program that is bound when the call is issued:
\* for the i-th call of cs, a uniform upload, the program bound after the
\* calls before it (0: no program, or no context); 0 for every other call
UploadTarget(m, cs, i) ==
    IF cs[i].op # "UniformMatrix4fv" \/ m.cur = 0 THEN 0
    ELSE ApplyAll(m.gl[m.cur],
                  SelectSeq(SubSeq(cs, 1, i - 1), HasEffect)).bound_program

\* issue the GL calls cs in order: they act on the current context only (on
\* nothing when no context is current) and each is logged with the context
\* it ran in
IssueAll(m, cs) ==
    [m EXCEPT
        !.gl = IF m.cur = 0 THEN @
               ELSE [@ EXCEPT ![m.cur] = ApplyAll(@, SelectSeq(cs, HasEffect))],
        !.log = @ \o [i \in 1..Len(cs) |->
                        [op |-> cs[i].op, args |-> cs[i].args, cur |-> m.cur,
                         target |-> UploadTarget(m, cs, i)]]]

\* a platform call (not a GL call) recorded in the same log
Platform(m, op) ==
    [m EXCEPT !.log = Append(@, [op |-> op, args |-> <<>>, cur |-> m.cur,
                                 target |-> 0])]

----------------------------------------------------------------------------
(* Renderer: construction *)

\* std::mem::size_of::<f32>()
SizeOfF32 == 4
\* cast_slice::<u32, u8>(&INDEX_DATA): four bytes per index
SizeOfU32 == 4
\* VERTEX_DATA: [f32; 15] (2-D), five floats per vertex
FloatsPerVertex2D == 5
VertexDataLen2D == 15
\* VERTEX_DATA: [Vertex; 4] (3-D), Vertex = two Vec3
VertexDataLen3D == 4
FloatsPerVec3 == 3
SizeOfVertex == 2 * FloatsPerVec3 * SizeOfF32
\* the offset of color if a Vec3 occupied four floats (a 16-byte vector)
OffsetOfColor_padded == (FloatsPerVec3 + 1) * SizeOfF32
OffsetOfColor == FloatsPerVec3 * SizeOfF32

\* load_gl_fn_ptrs: Gl::load_with, then the three diagnostic strings
load_gl_fn_ptrs ==
    << Call("GetString", <<"RENDERER">>),
       Call("GetString", <<"VERSION">>),
       Call("GetString", <<"SHADING_LANGUAGE_VERSION">>) >>

\* create_shader(gl, kind, source): the driver returned name sh
create_shader(kind, sh) ==
    << Call("CreateShader", <<sh, kind>>),
       Call("ShaderSource", <<sh>>),
       Call("CompileShader", <<sh>>) >>

\* a setup that deletes the vertex stage before the link and keeps the
\* fragment stage
link_program_leaky(vs, fs, p) ==
    create_shader("VERTEX_SHADER", vs) \o create_shader("FRAGMENT_SHADER", fs)
    \o << Call("CreateProgram", <<p>>),
          Call("AttachShader", <<p, vs>>),
          Call("AttachShader", <<p, fs>>),
          Call("DeleteShader", <<vs>>),
          Call("LinkProgram", <<p>>),
          Call("UseProgram", <<p>>) >>

\* a setup that links the program but does not bind it
link_program_unbound(vs, fs, p) ==
    create_shader("VERTEX_SHADER", vs) \o create_shader("FRAGMENT_SHADER", fs)
    \o << Call("CreateProgram", <<p>>),
          Call("AttachShader", <<p, vs>>),
          Call("AttachShader", <<p, fs>>),
          Call("LinkProgram", <<p>>),
          Call("DeleteShader", <<vs>>),
          Call("DeleteShader", <<fs>>) >>

\* both stages compiled, attached to a new program, linked, bound, and the
\* stage objects deleted; no status is queried
link_program(vs, fs, p) ==
    create_shader("VERTEX_SHADER", vs) \o create_shader("FRAGMENT_SHADER", fs)
    \o << Call("CreateProgram", <<p>>),
          Call("AttachShader", <<p, vs>>),
          Call("AttachShader", <<p, fs>>),
          Call("LinkProgram", <<p>>),
          Call("UseProgram", <<p>>),
          Call("DeleteShader", <<vs>>),
          Call("DeleteShader", <<fs>>) >>

\* outcome of a constructor: ok = FALSE is a panic (assert_ne! failed)
Built(m, r) == [ok |-> TRUE, m |-> m, r |-> r]
Panicked(m) == [ok |-> FALSE, m |-> m, r |-> None]

\* window.rs Renderer::new (2-D).  `home` and `made` are ghost fields: the
\* context the constructor ran in and the handles it created there.
Renderer_new_2D(m, vs, fs, p, vao, vbo) ==
    LET m1 == IssueAll(m, load_gl_fn_ptrs \o link_program(vs, fs, p)
                          \o << Call("GenVertexArrays", <<vao>>) >>)
        m2 == IssueAll(m1, << Call("BindVertexArray", <<vao>>),
                              Call("GenBuffers", <<vbo>>) >>)
        m3 == IssueAll(m2,
                << Call("BindBuffer", <<"ARRAY_BUFFER", vbo>>),
                   Call("BufferData",
                        <<"ARRAY_BUFFER", VertexDataLen2D * SizeOfF32>>),
                   Call("GetAttribLocation", <<p, "position">>),
                   Call("GetAttribLocation", <<p, "color">>),
                   Call("VertexAttribPointer",
                        <<"position", 2, "FLOAT", FALSE,
                          FloatsPerVertex2D * SizeOfF32, 0>>),
                   Call("VertexAttribPointer",
                        <<"color", 3, "FLOAT", FALSE,
                          FloatsPerVertex2D * SizeOfF32, 2 * SizeOfF32>>),
                   Call("EnableVertexAttribArray", <<"position">>),
                   Call("EnableVertexAttribArray", <<"color">>) >>)
    IN  IF vao = 0 THEN Panicked(m1)
        ELSE IF vbo = 0 THEN Panicked(m2)
        ELSE Built(m3, [some |-> TRUE, program |-> p, vao |-> vao, vbo |-> vbo,
                        home |-> m.cur,
                        made |-> [programs |-> {p}, buffers |-> {vbo},
                                  vaos |-> {vao}]])

\* renderer.rs Renderer::new (3-D).  The index buffer ibo is created and
\* attached to the vertex array but is not a field of the struct.
Renderer_new_3D(m, vs, fs, p, vao, vbo, ibo) ==
    LET m1 == IssueAll(m, load_gl_fn_ptrs
                          \o << Call("Enable", <<"DEPTH_TEST">>) >>
                          \o link_program(vs, fs, p)
                          \o << Call("CreateVertexArrays", <<vao>>) >>)
        m2 == IssueAll(m1, << Call("CreateBuffers", <<vbo>>) >>)
        m3 == IssueAll(m2,
                << Call("NamedBufferStorage",
                        <<vbo, VertexDataLen3D * SizeOfVertex>>),
                   Call("CreateBuffers", <<ibo>>) >>)
        m4 == IssueAll(m3,
                << Call("NamedBufferStorage", <<ibo, IndexCount * SizeOfU32>>),
                   Call("VertexArrayVertexBuffer",
                        <<vao, 0, vbo, 0, SizeOfVertex>>),
                   Call("VertexArrayElementBuffer", <<vao, ibo>>),
                   Call("GetAttribLocation", <<p, "aPosition">>),
                   Call("EnableVertexArrayAttrib", <<vao, "aPosition">>),
                   Call("VertexArrayAttribFormat",
                        <<vao, "aPosition", 3, "FLOAT", FALSE, 0>>),
                   Call("VertexArrayAttribBinding", <<vao, "aPosition", 0>>),
                   Call("GetAttribLocation", <<p, "aColor">>),
                   Call("EnableVertexArrayAttrib", <<vao, "aColor">>),
                   Call("VertexArrayAttribFormat",
                        <<vao, "aColor", FloatsPerVec3, "UNSIGNED_INT", FALSE,
                          OffsetOfColor>>),
                   Call("VertexArrayAttribBinding", <<vao, "aColor", 0>>) >>)
    IN  IF vao = 0 THEN Panicked(m1)
        ELSE IF vbo = 0 THEN Panicked(m2)
        ELSE IF ibo = IboAssertValue THEN Panicked(m3)
        ELSE Built(m4, [some |-> TRUE, program |-> p, vao |-> vao, vbo |-> vbo,
                        viewport_size |->
                            <<DefaultViewportWidth, DefaultViewportHeight>>,
                        home |-> m.cur,
                        made |-> [programs |-> {p},
                                  buffers |-> {vbo, ibo} \ {0},
                                  vaos |-> {vao}]])

Renderer_new(v, m, vs, fs, p, vao, vbo, ibo) ==
    IF v = "2D" THEN Renderer_new_2D(m, vs, fs, p, vao, vbo)
    ELSE Renderer_new_3D(m, vs, fs, p, vao, vbo, ibo)

\* The names a driver returns to one constructor run in table t.  Shader,
\* program and vertex-array objects get the smallest unused name of their
\* namespace; a buffer gets any unused name.  Gen*/Create* of arrays and
\* buffers may also leave the zeroed value in place (nothing created).
SmallestFree(used) ==
    CHOOSE x \in 1..(Cardinality(used) + 1) :
        x \notin used /\ \A y \in 1..(x - 1) : y \in used

NameChoices(v, t) ==
    LET vs == SmallestFree(t.programs \cup t.shaders)
        fs == SmallestFree(t.programs \cup t.shaders \cup {vs})
        p == SmallestFree(t.programs \cup t.shaders \cup {vs, fs})
        \* a call that is not reached (an earlier assert_ne! failed) returns
        \* nothing: its name is 0; the 2-D constructor creates no index buffer
        vbos(vao) == IF vao = 0 THEN {0} ELSE FreeBufferNames(t) \cup {0}
        ibos(vbo) == IF v = "2D" \/ vbo = 0 THEN {0}
                     ELSE (FreeBufferNames(t) \ {vbo}) \cup {0}
    IN  UNION { UNION {
          { [vs |-> vs, fs |-> fs, p |-> p, vao |-> vao, vbo |-> vbo,
             ibo |-> ibo] : ibo \in ibos(vbo) } :
          vbo \in vbos(vao) } :
          vao \in {0, SmallestFree(t.vaos)} }

\* the names when the constructor does not run
NoNames == [vs |-> 0, fs |-> 0, p |-> 0, vao |-> 0, vbo |-> 0, ibo |-> 0]

----------------------------------------------------------------------------
(* Renderer: draw, resize, Drop *)

\* a 2-D draw that also clears the depth buffer
draw_with_clear_color_2D_depth(m, r, rgba) ==
    IssueAll(m, << Call("UseProgram", <<r.program>>),
                   Call("BindVertexArray", <<r.vao>>),
                   Call("BindBuffer", <<"ARRAY_BUFFER", r.vbo>>),
                   Call("ClearColor", rgba),
                   Call("Clear", <<{"COLOR_BUFFER_BIT", "DEPTH_BUFFER_BIT"}>>),
                   Call("DrawArrays", <<"TRIANGLES", 0, VertexCount>>) >>)

\* a 3-D draw that uploads the matrix after the draw call
draw_with_clear_color_3D_late_upload(m, r, rgba) ==
    IssueAll(m, << Call("GetUniformLocation", <<r.program, "uMatrix">>),
                   Call("UseProgram", <<r.program>>),
                   Call("BindVertexArray", <<r.vao>>),
                   Call("BindBuffer", <<"ARRAY_BUFFER", r.vbo>>),
                   Call("ClearColor", rgba),
                   Call("Clear", <<{"COLOR_BUFFER_BIT", "DEPTH_BUFFER_BIT"}>>),
                   Call("DrawElements",
                        <<"TRIANGLES", IndexCount, "UNSIGNED_INT", 0>>),
                   Call("UniformMatrix4fv",
                        <<"uMatrix", 1, FALSE,
                          <<"projection*view*model", r.viewport_size>> >>) >>)

\* window.rs Renderer::draw_with_clear_color (2-D)
draw_with_clear_color_2D(m, r, rgba) ==
    IssueAll(m, << Call("UseProgram", <<r.program>>),
                   Call("BindVertexArray", <<r.vao>>),
                   Call("BindBuffer", <<"ARRAY_BUFFER", r.vbo>>),
                   Call("ClearColor", rgba),
                   Call("Clear", <<{"COLOR_BUFFER_BIT"}>>),
                   Call("DrawArrays", <<"TRIANGLES", 0, VertexCount>>) >>)

\* renderer.rs Renderer::draw_with_clear_color (3-D): the projection is
\* recomputed from viewport_size; the matrix is uploaded before UseProgram
draw_with_clear_color_3D(m, r, rgba) ==
    IssueAll(m, << Call("GetUniformLocation", <<r.program, "uMatrix">>),
                   Call("UniformMatrix4fv",
                        <<"uMatrix", 1, FALSE,
                          <<"projection*view*model", r.viewport_size>> >>),
                   Call("UseProgram", <<r.program>>),
                   Call("BindVertexArray", <<r.vao>>),
                   Call("BindBuffer", <<"ARRAY_BUFFER", r.vbo>>),
                   Call("ClearColor", rgba),
                   Call("Clear", <<{"COLOR_BUFFER_BIT", "DEPTH_BUFFER_BIT"}>>),
                   Call("DrawElements",
                        <<"TRIANGLES", IndexCount, "UNSIGNED_INT", 0>>) >>)

draw_with_clear_color(v, m, r, rgba) ==
    IF v = "2D" THEN draw_with_clear_color_2D(m, r, rgba)
    ELSE draw_with_clear_color_3D(m, r, rgba)

\* Renderer::draw
draw(v, m, r) == draw_with_clear_color(v, m, r, DefaultClearColor)

\* Renderer::resize: the GL calls it issues ...
resize_calls(m, width, height) ==
    IssueAll(m, << Call("Viewport", <<0, 0, width, height>>) >>)

\* a resize that treats its arguments as a change of the stored size
resize_self_relative(v, r, width, height) ==
    IF v = "3D"
    THEN [r EXCEPT !.viewport_size = <<@[1] + width, @[2] + height>>]
    ELSE r

\* ... and the Renderer it leaves (only the 3-D struct stores the size)
resize_self(v, r, width, height) ==
    IF v = "3D" THEN [r EXCEPT !.viewport_size = <<width, height>>] ELSE r

\* impl Drop for Renderer (the same three calls in both files)
Renderer_drop(m, r) ==
    IssueAll(m, << Call("DeleteProgram", <<r.program>>),
                   Call("DeleteBuffers", <<r.vbo>>),
                   Call("DeleteVertexArrays", <<r.vao>>) >>)

\* handles as <<kind, name>> pairs
Handles(x) ==
    ({"program"} \X x.programs) \cup ({"buffer"} \X x.buffers)
    \cup ({"vao"} \X x.vaos)

\* the handles of table c, none when c is no context
LiveIn(tables, c) == IF c = 0 THEN {} ELSE Handles(tables[c])

\* ghost record of one Renderer drop: r dropped from machine m0 giving m1
\* while `other` (possibly None) is a Renderer that stays alive
DropRecord(n, m0, m1, r, other) ==
    [n |-> n, home |-> r.home, cur |-> m0.cur,
     home_alive |-> m0.gl[r.home].alive,
     leaked |-> Handles(r.made) \cap LiveIn(m1.gl, r.home),
     missed |-> Handles([programs |-> {r.program}, buffers |-> {r.vbo},
                         vaos |-> {r.vao}]) \ LiveIn(m0.gl, m0.cur),
     stolen |-> IF IsSome(other)
                THEN (Handles(other.made) \cap LiveIn(m0.gl, other.home))
                     \ LiveIn(m1.gl, other.home)
                ELSE {}]

----------------------------------------------------------------------------
(* GfWindow::new: the configuration picker *)

\* a candidate configuration: id is its position in the offered sequence
Config(id, n) == [id |-> id, num_samples |-> n]

Some_config(c) == [some |-> TRUE, value |-> c]

\* every sequence of candidates the display can offer, the empty one included
Offers ==
    UNION { { [i \in 1..n |-> Config(i, f[i])] : f \in [1..n -> 0..MaxSamples] } :
            n \in 0..MaxConfigs }

\* the offer of the display the window runs on
TypicalOffer == << Config(1, 0), Config(2, 2), Config(3, 2) >>

\* a picker whose closure takes the later candidate on equal counts
RECURSIVE reduce_later(_, _)
reduce_later(acc, rest) ==
    IF rest = <<>> THEN acc
    ELSE reduce_later(IF Head(rest).num_samples >= acc.num_samples
                      THEN Head(rest) ELSE acc,
                      Tail(rest))

config_picker_later(cs) ==
    IF cs = <<>> THEN None ELSE Some_config(reduce_later(Head(cs), Tail(cs)))

\* Iterator::reduce with the closure of config_picker: the accumulator is
\* replaced only by a candidate with strictly more samples
RECURSIVE reduce(_, _)
reduce(acc, rest) ==
    IF rest = <<>> THEN acc
    ELSE reduce(IF Head(rest).num_samples > acc.num_samples
                THEN Head(rest) ELSE acc,
                Tail(rest))

\* config_picker before its .unwrap(): None for an empty iterator
config_picker(cs) ==
    IF cs = <<>> THEN None ELSE Some_config(reduce(Head(cs), Tail(cs)))

----------------------------------------------------------------------------
(* GfWindow: construction, teardown *)

\* the client area the platform gives a window created with default
\* attributes; the 3-D Renderer assumes the same size (renderer.rs:122)
InitialWindowSize == <<DefaultViewportWidth, DefaultViewportHeight>>

Event(kind, w, h) == [kind |-> kind, w |-> w, h |-> h]

\* the window events the platform delivers
WindowEvents ==
    {Event("RedrawRequested", 0, 0), Event("CloseRequested", 0, 0)}
    \cup {Event("Resized", w, h) : w \in Dims, h \in Dims}

\* GfWindow::new returned Ok: the three optional fields are None and
\* exit_state is Ok(())
Init ==
    /\ variant \in Variants
    /\ phase = "created"
    /\ renderer = None
    /\ surface = None
    /\ context = 0
    /\ exit_state = "Ok"
    /\ result = "none"
    /\ window_size = InitialWindowSize
    /\ gl = [c \in Ctxs |-> DeadCtx]
    /\ current = 0
    /\ nctx = 0
    /\ calls = <<>>
    /\ last_event = Event("none", 0, 0)
    /\ last_drop = NoDrop
    /\ created = 0
    /\ dropped = 0
    /\ nresumed = 0
    /\ configs = TypicalOffer
    /\ config = config_picker(TypicalOffer)

\* dropping a context destroys its objects; the thread is left without a
\* current context when it was the current one
Context_drop(m, c) ==
    IF c = 0 THEN m
    ELSE Platform([m EXCEPT !.gl[c] = DeadCtx,
                            !.cur = IF @ = c THEN 0 ELSE @],
                  "Context::drop")

Surface_drop(m, s) == IF IsSome(s) THEN Platform(m, "Surface::drop") ELSE m

\* struct GfWindow: fields are dropped in declaration order, renderer
\* before surface before context
GfWindow_drop(m) ==
    LET m1 == IF IsSome(renderer) THEN Renderer_drop(m, renderer) ELSE m
    IN  [m |-> Context_drop(Surface_drop(m1, surface), context),
         rec |-> IF IsSome(renderer)
                 THEN DropRecord(dropped + 1, m, m1, renderer, None)
                 ELSE NoDrop,
         n |-> IF IsSome(renderer) THEN dropped + 1 ELSE dropped]

\* the window object goes away (run returned, or a panic unwinds through
\* run): machine m is the state in which its fields are dropped; the native
\* window (field `window`) is destroyed with it
Teardown(m, ph, res) ==
    LET d == GfWindow_drop(m)
    IN  /\ phase' = ph
        /\ result' = res
        /\ renderer' = None
        /\ surface' = None
        /\ context' = 0
        /\ gl' = d.m.gl
        /\ current' = d.m.cur
        /\ calls' = d.m.log
        /\ last_drop' = d.rec
        /\ dropped' = d.n
        /\ window_size' = <<0, 0>>

\* GfWindow::run: takes the event loop and hands the window to run_app
run ==
    /\ phase = "created"
    /\ UNCHANGED cfgvars
    /\ phase' = "running"
    /\ UNCHANGED <<variant, renderer, surface, context, exit_state, result,
                   window_size, gl, current, nctx, calls, last_event,
                   last_drop, created, dropped, nresumed>>

\* run_app returns (the platform ended the loop, or exit() was requested);
\* run returns Ok(()) unless run_app itself failed, and the window is dropped
run_returns(res) ==
    /\ phase \in {"running", "exiting"}
    /\ UNCHANGED cfgvars
    /\ nresumed >= 1
    /\ Teardown(Machine(current, gl, <<>>), "returned", res)
    /\ last_event' = Event("LoopExiting", 0, 0)
    /\ UNCHANGED <<variant, exit_state, nctx, created, nresumed>>

----------------------------------------------------------------------------
(* ApplicationHandler for GfWindow *)

Some_surface(size) == [some |-> TRUE, size |-> size]

\* how one delivery of resumed can go: create_context fails; the surface
\* cannot be built; make_current fails; a required GL entry point is
\* missing (the loaded stub panics when called); or the constructor runs
ResumedOutcomes ==
    {"context_err", "surface_err", "make_current_err", "missing_fn", "new"}

\* resumed(): o is the outcome, n the names the driver returns
resumed(o, n) ==
    LET c == nctx + 1
        m0 == Machine(current, gl, <<>>)
        \* create_context returned Ok(context): a not-current context
        mc == Platform([m0 EXCEPT !.gl[c] = FreshCtx(window_size)],
                       "create_context")
        \* create_window_surface(...).unwrap()
        ms == Platform(mc, "create_window_surface")
        \* context.make_current(&surface).unwrap()
        mk == Platform([ms EXCEPT !.cur = c], "make_current")
        built == Renderer_new(variant, mk, n.vs, n.fs, n.p, n.vao, n.vbo, n.ibo)
        zero == window_size[1] = 0 \/ window_size[2] = 0
        \* self.renderer = Some(renderer) drops the previous value
        md == IF IsSome(renderer) THEN Renderer_drop(built.m, renderer)
              ELSE built.m
        \* self.context = Some(..) and self.surface = Some(..) likewise
        mf == Surface_drop(Context_drop(md, context), surface)
    IN
    /\ phase = "running"
    /\ UNCHANGED cfgvars
    /\ nresumed < MaxResumed
    /\ nresumed' = nresumed + 1
    /\ last_event' = Event("resumed", 0, 0)
    /\ variant' = variant
    /\ IF o = "context_err"
       THEN \* Err(err) => { self.exit_state = Err(err); event_loop.exit(); return }
            /\ exit_state' = "Err"
            /\ phase' = "exiting"
            /\ calls' = Platform(Platform(m0, "create_context"), "exit").log
            /\ last_drop' = NoDrop
            /\ UNCHANGED <<renderer, surface, context, result, gl, current,
                           nctx, created, dropped, window_size>>
       ELSE IF o = "surface_err" \/ zero
       THEN \* unwrap() panics: the local context is dropped, then the window
            /\ Teardown(Context_drop(mc, c), "panicked", "none")
            /\ nctx' = c
            /\ UNCHANGED <<exit_state, created>>
       ELSE IF o = "make_current_err"
       THEN /\ Teardown(Surface_drop(Context_drop(ms, c), Some_surface(window_size)),
                        "panicked", "none")
            /\ nctx' = c
            /\ UNCHANGED <<exit_state, created>>
       ELSE IF o = "missing_fn" \/ ~built.ok
       THEN \* panic inside Renderer::new: the locals possibly_current_context
            \* and surface are dropped, then the window
            /\ Teardown(Surface_drop(
                          Context_drop(IF o = "missing_fn" THEN mk ELSE built.m, c),
                          Some_surface(window_size)),
                        "panicked", "none")
            /\ nctx' = c
            /\ UNCHANGED <<exit_state, created>>
       ELSE /\ renderer' = built.r
            /\ context' = c
            /\ surface' = Some_surface(window_size)
            /\ gl' = mf.gl
            /\ current' = mf.cur
            /\ calls' = mf.log
            /\ nctx' = c
            /\ created' = created + 1
            /\ dropped' = IF IsSome(renderer) THEN dropped + 1 ELSE dropped
            /\ last_drop' = IF IsSome(renderer)
                            THEN DropRecord(dropped + 1, built.m, md, renderer,
                                            built.r)
                            ELSE NoDrop
            /\ UNCHANGED <<phase, exit_state, result, window_size>>

\* window_event with a Resized arm that applies every reported size, zero
\* included, to the surface and the renderer
window_event_body_resizing(m, r, s, c, ev) ==
    IF ev.kind = "RedrawRequested"
    THEN IF ~IsSome(r) THEN [ok |-> FALSE, m |-> m, r |-> r, s |-> s]
         ELSE LET m1 == Platform(draw(variant, m, r), "request_redraw")
              IN  IF ~IsSome(s) \/ c = 0
                  THEN [ok |-> FALSE, m |-> m1, r |-> r, s |-> s]
                  ELSE [ok |-> TRUE, m |-> Platform(m1, "swap_buffers"),
                        r |-> r, s |-> s]
    ELSE IF ev.kind = "Resized" /\ IsSome(r) /\ IsSome(s)
    THEN [ok |-> TRUE, m |-> resize_calls(m, ev.w, ev.h),
          r |-> resize_self(variant, r, ev.w, ev.h),
          s |-> [s EXCEPT !.size = <<ev.w, ev.h>>]]
    ELSE [ok |-> TRUE, m |-> m, r |-> r, s |-> s]

\* window_event that tears the renderer down on CloseRequested
window_event_body_closing(m, r, s, c, ev) ==
    IF ev.kind = "RedrawRequested"
    THEN IF ~IsSome(r) THEN [ok |-> FALSE, m |-> m, r |-> r, s |-> s]
         ELSE LET m1 == Platform(draw(variant, m, r), "request_redraw")
              IN  IF ~IsSome(s) \/ c = 0
                  THEN [ok |-> FALSE, m |-> m1, r |-> r, s |-> s]
                  ELSE [ok |-> TRUE, m |-> Platform(m1, "swap_buffers"),
                        r |-> r, s |-> s]
    ELSE IF ev.kind = "CloseRequested" /\ IsSome(r)
    THEN [ok |-> TRUE, m |-> Renderer_drop(m, r), r |-> None, s |-> s]
    ELSE [ok |-> TRUE, m |-> m, r |-> r, s |-> s]

\* the body of window_event as a function of the window's fields: r, s, c
\* are self.renderer, self.surface, self.context.  Only RedrawRequested is
\* matched; ok = FALSE is a panic (unwrap on None).
window_event_body(m, r, s, c, ev) ==
    IF ev.kind = "RedrawRequested"
    THEN IF ~IsSome(r) THEN [ok |-> FALSE, m |-> m, r |-> r, s |-> s]
         ELSE LET m1 == Platform(draw(variant, m, r), "request_redraw")
              IN  IF ~IsSome(s) \/ c = 0
                  THEN [ok |-> FALSE, m |-> m1, r |-> r, s |-> s]
                  ELSE [ok |-> TRUE, m |-> Platform(m1, "swap_buffers"),
                        r |-> r, s |-> s]
    ELSE [ok |-> TRUE, m |-> m, r |-> r, s |-> s]

\* window_event(): the platform delivers ev (a Resized event reports the
\* size the window already has)
window_event(ev) ==
    LET h == window_event_body(Machine(current, gl, <<>>), renderer, surface,
                               context, ev)
    IN
    /\ phase \in {"running", "exiting"}
    /\ UNCHANGED cfgvars
    /\ nresumed >= 1
    /\ last_event' = ev
    /\ UNCHANGED <<variant, exit_state, nctx, created, nresumed>>
    /\ IF h.ok
       THEN /\ window_size' = IF ev.kind = "Resized" THEN <<ev.w, ev.h>>
                              ELSE window_size
            /\ renderer' = h.r
            /\ surface' = h.s
            /\ gl' = h.m.gl
            /\ current' = h.m.cur
            /\ calls' = h.m.log
            /\ last_drop' = NoDrop
            /\ UNCHANGED <<phase, context, result, dropped>>
       ELSE Teardown(h.m, "panicked", "none")

Next ==
    \/ run
    \/ \E o \in ResumedOutcomes :
         \E n \in IF o = "new"
                   THEN NameChoices(variant, FreshCtx(window_size))
                   ELSE {NoNames} : resumed(o, n)
    \/ \E ev \in WindowEvents : window_event(ev)
    \/ \E res \in {"Ok", "Err"} : run_returns(res)

Spec == Init /\ [][Next]_vars

----------------------------------------------------------------------------
(* Properties of the window / context lifecycle *)

CreateOps ==
    {"CreateShader", "CreateProgram", "GenVertexArrays", "CreateVertexArrays",
     "GenBuffers", "CreateBuffers"}
DeleteOps == {"DeleteShader", "DeleteProgram", "DeleteBuffers",
              "DeleteVertexArrays"}

\* positions of the calls named op in a call log
At(log, ops) == {i \in 1..Len(log) : log[i].op \in ops}

Alive == phase \in {"running", "exiting"}

\* the viewport of the context current on the thread
Viewport == IF current = 0 THEN <<0, 0>> ELSE gl[current].viewport

\* C1: no GPU resource is created or destroyed while its context is not
\* current: every creation call runs with a context current, and every
\* Renderer drop runs while the context the Renderer was created in still
\* exists and is the current one.  Stated for the runs that do not panic.
C1_ResourcesOnlyUnderOwnCurrentContext ==
    phase # "panicked" =>
        /\ \A i \in At(calls, CreateOps \cup DeleteOps) : calls[i].cur # 0
        /\ last_drop.n > 0 =>
              last_drop.home_alive /\ last_drop.cur = last_drop.home

\* C2: dropping a Renderer releases every handle its constructor created,
\* each exactly once: none stays live and no delete hits a name that is not
\* live.  Stated for the Renderer of a run that constructed one Renderer
\* and returned from run().
C2_DropReleasesEveryHandleOnce ==
    (phase = "returned" /\ last_drop.n > 0 /\ created = 1) =>
        last_drop.leaked = {} /\ last_drop.missed = {}

\* C3: a Resized event with a zero width or height does not crash and
\* leaves the renderer (with its stored viewport size), the GPU viewport
\* and the surface as they were.
C3_ZeroResizeLeavesStateIntact ==
    [][\A ev \in WindowEvents :
         (ev.kind = "Resized" /\ (ev.w = 0 \/ ev.h = 0) /\ window_event(ev)) =>
            /\ phase' = phase
            /\ renderer' = renderer
            /\ surface' = surface
            /\ gl' = gl
            /\ current' = current]_vars

C3_Witness ==
    /\ Alive /\ IsSome(renderer) /\ IsSome(surface)
    /\ last_event.kind = "Resized"
    /\ (last_event.w = 0 \/ last_event.h = 0)

\* C4: after a Resized(W, H) event with W > 0 and H > 0 is handled, the
\* surface has size (W, H) and the viewport is (0, 0, W, H).
C4_PositiveResizeApplied ==
    (Alive /\ IsSome(renderer) /\ IsSome(surface)
       /\ last_event.kind = "Resized" /\ last_event.w > 0 /\ last_event.h > 0) =>
        /\ surface.size = <<last_event.w, last_event.h>>
        /\ Viewport = <<last_event.w, last_event.h>>

\* C5: a draw issued after a Resized(W, H) event with positive dimensions
\* runs with surface size and viewport both (W, H).  window_size is the
\* size of the last Resized event once it differs from the initial size.
C5_DrawAfterResizeSeesNewSize ==
    (Alive /\ IsSome(renderer) /\ IsSome(surface)
       /\ last_event.kind = "RedrawRequested"
       /\ window_size # InitialWindowSize
       /\ window_size[1] > 0 /\ window_size[2] > 0) =>
        /\ surface.size = window_size
        /\ Viewport = window_size

DrawOps == {"DrawArrays", "DrawElements"}

\* C6: every RedrawRequested event performs, in this order and once each, a
\* draw, a redraw request and a buffer swap; no other event draws or swaps.
C6_RedrawDrawsRequestsSwaps ==
    LET d == At(calls, DrawOps)
        q == At(calls, {"request_redraw"})
        w == At(calls, {"swap_buffers"})
    IN  IF last_event.kind = "RedrawRequested"
        THEN /\ Cardinality(d) = 1 /\ Cardinality(q) = 1 /\ Cardinality(w) = 1
             /\ \A i \in d : \A j \in q : \A k \in w : i < j /\ j < k
        ELSE last_event.kind \in {"Resized", "CloseRequested"} =>
                d = {} /\ w = {}

\* C9: a setup error is fatal: once context creation has failed, run()
\* does not return success.
C9_ContextFailureIsNotSuccess ==
    exit_state = "Err" => result # "Ok"

\* C10: the Renderer is created once and destroyed once, in its own live
\* context, releasing all its handles, and its teardown deletes no handle
\* of another live Renderer.  Stated for the runs that do not panic.
C10_OneRendererOneTeardown ==
    phase # "panicked" =>
        /\ created <= 1
        /\ dropped <= 1
        /\ last_drop.n > 0 =>
              /\ last_drop.home_alive
              /\ last_drop.cur = last_drop.home
              /\ last_drop.stolen = {}

\* C18: a window event other than RedrawRequested and Resized is ignored:
\* no GPU call, no swap, no redraw request, and renderer, surface, context
\* and viewport state stay as they were.
C18_OtherEventsIgnored ==
    [][\A ev \in WindowEvents :
         (ev.kind \notin {"RedrawRequested", "Resized"} /\ window_event(ev)) =>
            /\ calls' = <<>>
            /\ phase' = phase
            /\ renderer' = renderer
            /\ surface' = surface
            /\ context' = context
            /\ gl' = gl
            /\ current' = current]_vars

C18_Witness ==
    /\ Alive /\ IsSome(renderer) /\ IsSome(surface) /\ context # 0
    /\ last_event.kind = "CloseRequested"

\* C19: whenever a RedrawRequested event is dispatched, the renderer, the
\* surface and the context are present, and the handler does not panic.
C19_RedrawFindsFieldsPresent ==
    [][(window_event(Event("RedrawRequested", 0, 0))) =>
          /\ IsSome(renderer)
          /\ IsSome(surface)
          /\ context # 0
          /\ phase' # "panicked"]_vars

----------------------------------------------------------------------------
(* The Renderer driven through its public interface                        *)
(*                                                                         *)
(* A caller that holds one current context constructs a Renderer, draws,   *)
(* resizes and drops it, in any order the types allow.                     *)

\* clear colours a caller passes, in tenths
ClearColors == {DefaultClearColor, <<0, 0, 0, 10>>, <<10, 5, 0, 0>>}

ApiCall(kind, w, h, rgba) == [kind |-> kind, w |-> w, h |-> h, rgba |-> rgba]

\* one context exists and is current; no Renderer yet
RInit ==
    /\ variant \in Variants
    /\ phase = "running"
    /\ renderer = None
    /\ surface = Some_surface(InitialWindowSize)
    /\ context = 1
    /\ exit_state = "Ok"
    /\ result = "none"
    /\ window_size = InitialWindowSize
    /\ gl = [c \in Ctxs |-> IF c = 1 THEN FreshCtx(InitialWindowSize)
                           ELSE DeadCtx]
    /\ current = 1
    /\ nctx = 1
    /\ calls = <<>>
    /\ last_event = ApiCall("none", 0, 0, <<>>)
    /\ last_drop = NoDrop
    /\ created = 0
    /\ dropped = 0
    /\ nresumed = 0
    /\ configs = TypicalOffer
    /\ config = config_picker(TypicalOffer)

\* Renderer::new(&display): n are the names the driver returns
RNew(n) ==
    LET built == Renderer_new(variant, Machine(current, gl, <<>>),
                              n.vs, n.fs, n.p, n.vao, n.vbo, n.ibo)
    IN  /\ phase = "running"
        /\ UNCHANGED cfgvars
        /\ ~IsSome(renderer)
        /\ created < MaxResumed
        /\ last_event' = ApiCall("new", 0, 0, <<>>)
        /\ gl' = built.m.gl
        /\ calls' = built.m.log
        /\ last_drop' = NoDrop
        /\ IF built.ok
           THEN /\ renderer' = built.r
                /\ created' = created + 1
                /\ phase' = phase
           ELSE /\ renderer' = None
                /\ created' = created
                /\ phase' = "panicked"
        /\ UNCHANGED <<variant, surface, context, exit_state, result,
                       window_size, current, nctx, dropped, nresumed>>

\* renderer.draw()
RDraw ==
    LET m == draw(variant, Machine(current, gl, <<>>), renderer)
    IN  /\ phase = "running"
        /\ UNCHANGED cfgvars
        /\ IsSome(renderer)
        /\ last_event' = ApiCall("draw", 0, 0, <<>>)
        /\ gl' = m.gl
        /\ calls' = m.log
        /\ last_drop' = NoDrop
        /\ UNCHANGED <<variant, phase, renderer, surface, context, exit_state,
                       result, window_size, current, nctx, created, dropped,
                       nresumed>>

\* renderer.draw_with_clear_color(red, green, blue, alpha)
RDrawWithClearColor(rgba) ==
    LET m == draw_with_clear_color(variant, Machine(current, gl, <<>>),
                                   renderer, rgba)
    IN  /\ phase = "running"
        /\ UNCHANGED cfgvars
        /\ IsSome(renderer)
        /\ last_event' = ApiCall("draw_with_clear_color", 0, 0, rgba)
        /\ gl' = m.gl
        /\ calls' = m.log
        /\ last_drop' = NoDrop
        /\ UNCHANGED <<variant, phase, renderer, surface, context, exit_state,
                       result, window_size, current, nctx, created, dropped,
                       nresumed>>

\* renderer.resize(width, height)
RResize(width, height) ==
    LET m == resize_calls(Machine(current, gl, <<>>), width, height)
    IN  /\ phase = "running"
        /\ UNCHANGED cfgvars
        /\ IsSome(renderer)
        /\ last_event' = ApiCall("resize", width, height, <<>>)
        /\ renderer' = resize_self(variant, renderer, width, height)
        /\ gl' = m.gl
        /\ calls' = m.log
        /\ last_drop' = NoDrop
        /\ UNCHANGED <<variant, phase, surface, context, exit_state, result,
                       window_size, current, nctx, created, dropped, nresumed>>

\* drop(renderer)
RDrop ==
    LET m0 == Machine(current, gl, <<>>)
        m == Renderer_drop(m0, renderer)
    IN  /\ phase = "running"
        /\ UNCHANGED cfgvars
        /\ IsSome(renderer)
        /\ last_event' = ApiCall("drop", 0, 0, <<>>)
        /\ renderer' = None
        /\ gl' = m.gl
        /\ calls' = m.log
        /\ dropped' = dropped + 1
        /\ last_drop' = DropRecord(dropped + 1, m0, m, renderer, None)
        /\ UNCHANGED <<variant, phase, surface, context, exit_state, result,
                       window_size, current, nctx, created, nresumed>>

RNext ==
    \/ \E n \in NameChoices(variant, gl[1]) : RNew(n)
    \/ RDraw
    \/ \E rgba \in ClearColors : RDrawWithClearColor(rgba)
    \/ \E w \in Dims, h \in Dims : RResize(w, h)
    \/ RDrop

RendererSpec == RInit /\ [][RNext]_vars

----------------------------------------------------------------------------
(* Properties of the draw routines *)

IsDraw == last_event.kind \in {"draw", "draw_with_clear_color"}

\* the colour the caller of the last draw gave: draw() gives
\* (0.1, 0.1, 0.1, 0.9)
GivenColor ==
    IF last_event.kind = "draw" THEN <<1, 1, 1, 9>> ELSE last_event.rgba

\* C7: in the 3-D variant a draw issues exactly one DrawElements over 12
\* indices and no DrawArrays, clears colour and depth with the given colour,
\* and uploads one 4x4 combined matrix as a uniform before the draw call.
C7_IndexedDrawWithUniform ==
    (IsDraw /\ variant = "3D") =>
        LET d == At(calls, {"DrawElements"})
            u == At(calls, {"UniformMatrix4fv"})
            k == At(calls, {"Clear"})
            cc == At(calls, {"ClearColor"})
        IN  /\ Cardinality(d) = 1
            /\ \A i \in d : calls[i].args[1] = "TRIANGLES" /\ calls[i].args[2] = 12
            /\ At(calls, {"DrawArrays"}) = {}
            /\ Cardinality(k) = 1
            /\ \A i \in k :
                  calls[i].args[1] = {"COLOR_BUFFER_BIT", "DEPTH_BUFFER_BIT"}
            /\ Cardinality(cc) = 1
            /\ \A i \in cc : calls[i].args = GivenColor /\ \A j \in k : i < j
            /\ Cardinality(u) = 1
            /\ \A i \in u :
                  /\ calls[i].args[2] = 1
                  /\ calls[i].args[4][1] = "projection*view*model"
                  /\ \A j \in d : i < j
            /\ \A i \in d \cup u \cup k \cup cc : calls[i].cur = renderer.home

C7_Witness ==
    /\ variant = "3D" /\ IsSome(renderer)
    /\ last_event.kind = "draw_with_clear_color"
    /\ last_event.rgba # DefaultClearColor
    /\ renderer.viewport_size # InitialWindowSize
    /\ At(calls, {"DrawElements"}) # {}

\* C8: in the 2-D variant a draw issues exactly one DrawArrays for 3
\* vertices starting at vertex 0 and exactly one colour-buffer clear with
\* the given colour, no DrawElements and no depth-buffer clear.
C8_NonIndexedDrawColorClear ==
    (IsDraw /\ variant = "2D") =>
        LET d == At(calls, {"DrawArrays"})
            k == At(calls, {"Clear"})
            cc == At(calls, {"ClearColor"})
        IN  /\ Cardinality(d) = 1
            /\ \A i \in d : calls[i].args = <<"TRIANGLES", 0, 3>>
            /\ At(calls, {"DrawElements"}) = {}
            /\ Cardinality(k) = 1
            /\ \A i \in k : calls[i].args[1] = {"COLOR_BUFFER_BIT"}
            /\ Cardinality(cc) = 1
            /\ \A i \in cc : calls[i].args = GivenColor /\ \A j \in k : i < j
            /\ \A i \in k : \A j \in d : i < j
            /\ \A i \in d \cup k \cup cc : calls[i].cur = renderer.home

C8_Witness ==
    /\ variant = "2D" /\ IsSome(renderer)
    /\ last_event.kind = "draw"
    /\ At(calls, {"DrawArrays"}) # {}
    /\ \E i \in At(calls, {"ClearColor"}) : calls[i].args = <<1, 1, 1, 9>>

----------------------------------------------------------------------------
(* Properties of Renderer construction and destruction *)

\* the last call was a constructor that returned a Renderer
JustBuilt == last_event.kind = "new" /\ IsSome(renderer)

\* the calls named op whose first (2-D) or second (3-D) argument names
\* attribute a
AttribCalls(op, k, a) == {i \in At(calls, {op}) : calls[i].args[k] = a}

\* C12: the declared layout matches the interleaved vertex record: position
\* at byte 0, color at byte 8 (2-D) or 12 (3-D), stride 20 or 24, and the
\* uploaded byte count is the record size times the vertex count.
C12_LayoutMatchesRecord ==
    JustBuilt =>
        IF variant = "2D"
        THEN /\ \E i \in At(calls, {"BufferData"}) : calls[i].args[2] = 20 * 3
             /\ \A i \in At(calls, {"BufferData"}) : calls[i].args[2] = 20 * 3
             /\ AttribCalls("VertexAttribPointer", 1, "position") # {}
             /\ AttribCalls("VertexAttribPointer", 1, "color") # {}
             /\ \A i \in AttribCalls("VertexAttribPointer", 1, "position") :
                   calls[i].args[5] = 20 /\ calls[i].args[6] = 0
             /\ \A i \in AttribCalls("VertexAttribPointer", 1, "color") :
                   calls[i].args[5] = 20 /\ calls[i].args[6] = 8
        ELSE /\ \E i \in At(calls, {"NamedBufferStorage"}) :
                   calls[i].args = <<renderer.vbo, 24 * 4>>
             /\ \A i \in At(calls, {"NamedBufferStorage"}) :
                   calls[i].args[1] = renderer.vbo => calls[i].args[2] = 24 * 4
             /\ At(calls, {"VertexArrayVertexBuffer"}) # {}
             /\ \A i \in At(calls, {"VertexArrayVertexBuffer"}) :
                   /\ calls[i].args[3] = renderer.vbo
                   /\ calls[i].args[4] = 0
                   /\ calls[i].args[5] = 24
             /\ AttribCalls("VertexArrayAttribFormat", 2, "aPosition") # {}
             /\ AttribCalls("VertexArrayAttribFormat", 2, "aColor") # {}
             /\ \A i \in AttribCalls("VertexArrayAttribFormat", 2, "aPosition") :
                   calls[i].args[6] = 0
             /\ \A i \in AttribCalls("VertexArrayAttribFormat", 2, "aColor") :
                   calls[i].args[6] = 12

C12_Witness ==
    /\ JustBuilt /\ variant = "3D"
    /\ AttribCalls("VertexArrayAttribFormat", 2, "aColor") # {}
    /\ At(calls, {"NamedBufferStorage"}) # {}

\* C13: resize is idempotent: a resize(W, H) that directly follows a
\* resize(W, H) leaves the stored viewport size and the GPU viewport as the
\* first call left them.
C13_ResizeIdempotent ==
    [][\A w \in Dims, h \in Dims :
         (last_event.kind = "resize" /\ last_event.w = w /\ last_event.h = h
            /\ RResize(w, h)) =>
            /\ renderer' = renderer
            /\ gl' = gl]_vars

C13_Witness ==
    /\ last_event.kind = "resize" /\ IsSome(renderer)
    /\ last_event.w > 0 /\ last_event.h > 0
    /\ gl[current].viewport = <<last_event.w, last_event.h>>
    /\ variant = "3D" => renderer.viewport_size = <<last_event.w, last_event.h>>

\* C14: each attribute is declared with the component count and numeric
\* type of the field that fills it: position 2 floats (2-D) or 3 floats
\* (3-D), color 3 floats, never normalized.
C14_AttributeTypesMatchFields ==
    JustBuilt =>
        IF variant = "2D"
        THEN /\ \A i \in AttribCalls("VertexAttribPointer", 1, "position") :
                   /\ calls[i].args[2] = 2
                   /\ calls[i].args[3] = "FLOAT"
                   /\ calls[i].args[4] = FALSE
             /\ \A i \in AttribCalls("VertexAttribPointer", 1, "color") :
                   /\ calls[i].args[2] = 3
                   /\ calls[i].args[3] = "FLOAT"
                   /\ calls[i].args[4] = FALSE
        ELSE /\ \A i \in AttribCalls("VertexArrayAttribFormat", 2, "aPosition") :
                   /\ calls[i].args[3] = 3
                   /\ calls[i].args[4] = "FLOAT"
                   /\ calls[i].args[5] = FALSE
             /\ \A i \in AttribCalls("VertexArrayAttribFormat", 2, "aColor") :
                   /\ calls[i].args[3] = 3
                   /\ calls[i].args[4] = "FLOAT"
                   /\ calls[i].args[5] = FALSE

\* position of a delete call in the order program, buffers, vertex array
DeleteRank(op) ==
    CASE op = "DeleteProgram" -> 1
      [] op = "DeleteBuffers" -> 2
      [] op = "DeleteVertexArrays" -> 3
      [] OTHER -> 0

\* the delete calls of log that name object x with call op
DeletesOf(log, op, x) ==
    {i \in At(log, {op}) : log[i].args[1] = x}

StatusQueries ==
    {"GetShaderiv", "GetProgramiv", "GetShaderInfoLog", "GetProgramInfoLog"}

\* the calls named op whose arguments are args
CallsWith(op, args) == {i \in At(calls, {op}) : calls[i].args = args}

\* C16: construction creates and compiles one vertex and one fragment
\* stage, attaches both to one new program before the link, deletes each
\* stage once after the link, leaves no stage object, queries no status.
C16_TwoStagesLinkedThenDeleted ==
    last_event.kind = "new" =>
        LET cs == At(calls, {"CreateShader"})
            cp == At(calls, {"CreateProgram"})
            lk == At(calls, {"LinkProgram"})
            kinds == {calls[i].args[2] : i \in cs}
            stages == {calls[i].args[1] : i \in cs}
        IN  /\ Cardinality(cs) = 2
            /\ kinds = {"VERTEX_SHADER", "FRAGMENT_SHADER"}
            /\ Cardinality(stages) = 2 /\ 0 \notin stages
            /\ Cardinality(cp) = 1 /\ Cardinality(lk) = 1
            /\ Cardinality(At(calls, {"CompileShader"})) = 2
            /\ Cardinality(At(calls, {"AttachShader"})) = 2
            /\ Cardinality(At(calls, {"DeleteShader"})) = 2
            /\ \A c \in cp : \A l \in lk : \A i \in cs :
                  LET sh == calls[i].args[1]
                      prog == calls[c].args[1]
                  IN  /\ calls[l].args = <<prog>>
                      /\ prog \notin stages /\ prog # 0
                      /\ \E k \in CallsWith("CompileShader", <<sh>>) : i < k /\ k < l
                      /\ \E a \in CallsWith("AttachShader", <<prog, sh>>) :
                            c < a /\ a < l
                      /\ \E d \in CallsWith("DeleteShader", <<sh>>) : l < d
            /\ current # 0 => gl[current].shaders = {}
            /\ At(calls, StatusQueries) = {}

C16_Witness ==
    /\ JustBuilt
    /\ At(calls, {"LinkProgram"}) # {}
    /\ Cardinality(At(calls, {"DeleteShader"})) = 2

\* every call of log named in ops1 comes before every call named in ops2
Before(log, ops1, ops2) ==
    \A i \in At(log, ops1) : \A j \in At(log, ops2) : i < j

\* C17: a 3-D draw binds the program and the vertex array, then clears,
\* then uploads the matrix uniform, then issues the draw call; the program
\* bind precedes the uniform upload.
C17_DrawCallOrder ==
    (IsDraw /\ variant = "3D") =>
        /\ At(calls, {"UseProgram"}) # {}
        /\ At(calls, {"UniformMatrix4fv"}) # {}
        /\ Before(calls, {"UseProgram", "BindVertexArray"}, {"Clear"})
        /\ Before(calls, {"Clear"}, {"UniformMatrix4fv"})
        /\ Before(calls, {"UniformMatrix4fv"}, {"DrawElements"})
        /\ Before(calls, {"UseProgram"}, {"UniformMatrix4fv"})

\* the handles the driver returned for the vertex arrays and buffers the
\* last constructor run created
ReturnedHandles ==
    {calls[i].args[1] :
       i \in At(calls, {"GenVertexArrays", "CreateVertexArrays",
                        "GenBuffers", "CreateBuffers"})}

\* C20: the constructor returns a Renderer only when no handle it created
\* is 0, and aborts only when one of them is 0.
C20_ConstructionAllOrAbort ==
    last_event.kind = "new" =>
        /\ IsSome(renderer) => 0 \notin ReturnedHandles
        /\ phase = "panicked" => 0 \in ReturnedHandles

\* C21: in the 3-D variant every uniform-matrix upload of a draw is issued
\* while the context's bound program is the Renderer's own live program,
\* never program 0 or another program.
C21_UploadTargetsOwnProgram ==
    (IsDraw /\ variant = "3D") =>
        /\ At(calls, {"UniformMatrix4fv"}) # {}
        /\ \A i \in At(calls, {"UniformMatrix4fv"}) :
              /\ calls[i].cur = renderer.home
              /\ calls[i].target # 0
              /\ calls[i].target = renderer.program
              /\ calls[i].target \in gl[renderer.home].programs

C21_Witness ==
    /\ IsDraw /\ variant = "3D" /\ IsSome(renderer)
    /\ created = MaxResumed /\ dropped = MaxResumed - 1
    /\ renderer.viewport_size # InitialWindowSize
    /\ \E i \in At(calls, {"UniformMatrix4fv"}) :
          calls[i].target = renderer.program

----------------------------------------------------------------------------
(* GfWindow::new on every offer of the display *)

\* before GfWindow::new: the display is about to offer `configs`
PInit ==
    /\ variant \in Variants
    /\ phase = "new"
    /\ renderer = None
    /\ surface = None
    /\ context = 0
    /\ exit_state = "Ok"
    /\ result = "none"
    /\ window_size = InitialWindowSize
    /\ gl = [c \in Ctxs |-> DeadCtx]
    /\ current = 0
    /\ nctx = 0
    /\ calls = <<>>
    /\ last_event = Event("none", 0, 0)
    /\ last_drop = NoDrop
    /\ created = 0
    /\ dropped = 0
    /\ nresumed = 0
    /\ configs \in Offers
    /\ config = None

\* GfWindow::new: DisplayBuilder::build runs config_picker on the offer;
\* the picker's unwrap() panics on an empty offer
GfWindow_new ==
    /\ phase = "new"
    /\ config' = config_picker(configs)
    /\ phase' = IF IsSome(config_picker(configs)) THEN "created" ELSE "panicked"
    /\ UNCHANGED <<variant, renderer, surface, context, exit_state, result,
                   window_size, gl, current, nctx, calls, last_event,
                   last_drop, created, dropped, nresumed, configs>>

PNext == GfWindow_new

PickerSpec == PInit /\ [][PNext]_vars

\* C11: for every non-empty offer the picker returns a candidate of the
\* offer with the highest multisample count, and the first such candidate
\* when several share that count.
C11_PickerTakesFirstMaximum ==
    (phase # "new" /\ configs # <<>>) =>
        /\ phase = "created"
        /\ IsSome(config)
        /\ config.value.id \in 1..Len(configs)
        /\ configs[config.value.id] = config.value
        /\ \A i \in 1..Len(configs) :
              /\ configs[i].num_samples <= config.value.num_samples
              /\ i < config.value.id =>
                    configs[i].num_samples < config.value.num_samples

C11_Witness ==
    /\ phase = "created" /\ IsSome(config)
    /\ Len(configs) = MaxConfigs
    /\ \E i, j \in 1..Len(configs) :
          /\ i < j /\ config.value.id = i /\ i > 1
          /\ configs[j].num_samples = configs[i].num_samples

====
